---- MODULE Spec2Model ----
(***************************************************************************)
(* Point-of-sale checkout of the chemist management system: the POSSystem  *)
(* component (cart, completeSale) running on several terminals against one *)
(* database holding the medicines, sales and sale_items tables, with the   *)
(* before-insert trigger that numbers the sales; the inventory screens     *)
(* (MedicineList, AddMedicineForm) writing to medicines under the          *)
(* low-stock trigger; the intake screens (ProductForm, Supplier) taking in *)
(* supplied batches and syncing them into medicines; the row level         *)
(* security policies of sales, sale_items, medicines and admin_settings    *)
(* as they answer requests sent straight to the data API; and the tabs of  *)
(* the Manager page.                                                       *)
(*                                                                         *)
(* Money is counted in thousandths of a shilling (1 KES = 1000), so that a *)
(* price typed with more than two decimals and its rounding by a           *)
(* DECIMAL(10, 2) column are both representable.                           *)
(***************************************************************************)
EXTENDS Integers, Sequences, FiniteSets, TLC

\* ---------------------------------------------------------------- bounds

MaxStock == 2
MaxSales == 3
MaxTillSales == 1
MaxAlerts == 2
MaxNewRows == 1
MaxShelf == 4
MaxBatches == 2
MaxHeadroom == 3

\* ------------------------------------------------------------- constants

PadLength == 4

\* COALESCE(stock_threshold, 10)
DefaultThreshold == 10

Terminal == {"t1", "t2"}
MedicineId == {"m1", "m2"}
Roles == {"admin", "cashier", "unset"}

\* What the unit price field may hold once parsed (0 stands for an empty or
\* non-positive entry): 2.504 and 10.00 shillings.
UnitPrices == {2504, 10000}
NoSelection == ""

\* the ids given to rows inserted into medicines
NewIds == << "n1", "n2", "n3", "n4" >>

\* the name column of the medicines in stock from the start
NameOf(m) == IF m = "m1" THEN "Panadol" ELSE "Amoxil"

\* The days on which the database clock may stand, as <<year, month, day>>.
Dates == << <<2025, 10, 9>>, <<2025, 10, 10>> >>

VARIABLES
  medicinesTable,   \* public.medicines: medicine id -> stored quantity
  medicineNames,    \* public.medicines: medicine id -> name
  sales,            \* public.sales: the rows, in insertion order
  sale_items,       \* public.sale_items: the set of rows
  today,            \* index in Dates of CURRENT_DATE
  role,             \* the role prop of the component each terminal shows
  medicines,        \* each terminal's loaded snapshot (state `medicines`)
  cart,             \* each terminal's cart (state `cart`)
  customerName,     \* each terminal's customer name field
  customerPhone,    \* each terminal's customer phone field
  paymentMethod,    \* each terminal's payment method
  pc,               \* where each terminal's running handler stands
  call,             \* the running completeSale: its closure and its results
  attempt,          \* history: the last checkout each terminal started
  saleNotifications, \* the requests received by the sale notification function
  database,         \* the name of the database the migrations were applied to
  admin_settings,   \* public.admin_settings: the rows, in the order LIMIT 1 reads them
  alerts,           \* the requests queued for send-low-stock-alert, oldest first
  lastWrite,        \* history: the last insert or quantity update sent to medicines
  products,         \* public.products: the intake batches of ProductForm
  supplied_products, \* public.supplied_products: the batches of the Supplier page
  syncProduct,      \* ProductForm: the batch of the open sync dialog
  syncQuantity,     \* ProductForm: the quantity field of the sync dialog
  syncCall,         \* the running sync: its closure and the row it read
  user_roles,       \* public.user_roles: the roles of each terminal's signed-in user
  request,          \* history: the last request a caller sent to the data API
  activeTab         \* the Manager page's activeTab state on each terminal

\* the fields of the checkout form beside the cart
form == << customerName, customerPhone, paymentMethod >>

\* what a write to medicines may add to
dispatch == << alerts, lastWrite >>

\* the signed-in users, what they last asked of the data API, and the tab of
\* the Manager page they are on
session == << user_roles, request, activeTab >>

\* the back office: notification settings and the intake of supplied products
backOffice == << medicineNames, saleNotifications, session, database, admin_settings, products,
                supplied_products, syncProduct, syncQuantity, syncCall >>

vars == << medicinesTable, sales, sale_items, today, role, medicines, cart,
           pc, call, attempt, form, dispatch, backOffice >>

\* ------------------------------------------------------------- text, numbers

Digit(d) == CASE d = 0 -> "0" [] d = 1 -> "1" [] d = 2 -> "2" [] d = 3 -> "3"
              [] d = 4 -> "4" [] d = 5 -> "5" [] d = 6 -> "6" [] d = 7 -> "7"
              [] d = 8 -> "8" [] d = 9 -> "9"

RECURSIVE IntToText(_)
\* n::TEXT for n >= 0: the decimal digits, most significant first.
IntToText(n) == IF n < 10 THEN << Digit(n) >>
                ELSE Append(IntToText(n \div 10), Digit(n % 10))

RECURSIVE Repeat(_, _)
Repeat(ch, k) == IF k <= 0 THEN << >> ELSE << ch >> \o Repeat(ch, k - 1)

\* LPAD(s, len, fill): fills on the left up to len, and truncates a longer
\* string to its first len characters.
LPad(s, len, fill) == IF Len(s) >= len THEN SubSeq(s, 1, len)
                      ELSE Repeat(fill, len - Len(s)) \o s

\* TO_CHAR(d, 'YYYYMMDD')
ToCharYYYYMMDD(d) == LPad(IntToText(d[1]), PadLength, "0") \o LPad(IntToText(d[2]), 2, "0")
                       \o LPad(IntToText(d[3]), 2, "0")

\* A value stored in a DECIMAL(10, 2) column: rounded to two decimals, half away
\* from zero (values here are never negative).
ToNumeric(x) == ((x + 5) \div 10) * 10

\* numeric field overflow: the rounded value needs more than 10 - 2 integer digits
NumericFits(x) == ToNumeric(x) \div 1000 < 100000000

IsDigit(ch) == ch \in {"0", "1", "2", "3", "4", "5", "6", "7", "8", "9"}

DigitValue(ch) == CHOOSE d \in 0..9 : Digit(d) = ch

RECURSIVE LeadingDigits(_)
\* the longest prefix of s made of digits
LeadingDigits(s) == IF s = << >> \/ ~IsDigit(Head(s)) THEN << >>
                    ELSE << Head(s) >> \o LeadingDigits(Tail(s))

RECURSIVE DigitsValue(_)
DigitsValue(d) == IF d = << >> THEN 0
                  ELSE 10 * DigitsValue(SubSeq(d, 1, Len(d) - 1)) + DigitValue(d[Len(d)])

\* NaN; JSON.stringify writes it as null, so it is kept as the same value
NaN == << >>

\* parseInt(s) for a string without leading blanks: an optional sign, then the
\* leading digits; NaN when there is no digit. The result is << n >> or NaN.
ParseInt(s) ==
  LET signed == s # << >> /\ Head(s) \in {"-", "+"}
      digits == LeadingDigits(IF signed THEN Tail(s) ELSE s)
  IN IF digits = << >> THEN NaN
     ELSE IF signed /\ Head(s) = "-" THEN << 0 - DigitsValue(digits) >>
     ELSE << DigitsValue(digits) >>

\* SQL NULL, and JSON null; a value that may be null is << >> or << v >>
Null == << >>

\* s || null
OrNull(s) == IF s = "" THEN Null ELSE << s >>

\* COALESCE(x, d)
Coalesce(x, d) == IF x = Null THEN d ELSE x[1]

\* ------------------------------------------------------------------ the cart

RECURSIVE SumTotalPrice(_)
SumTotalPrice(c) == IF c = << >> THEN 0 ELSE Head(c).totalPrice + SumTotalPrice(Tail(c))

\* calculateTotal: cart.reduce((sum, item) => sum + item.totalPrice, 0)
CalculateTotal(c) == SumTotalPrice(c)

InCart(c, m) == \E i \in 1..Len(c) : c[i].medicineId = m

LineOf(c, m) == c[CHOOSE i \in 1..Len(c) : c[i].medicineId = m]

\* the stock check of addToCart: the quantity being added against the snapshot
InsufficientStock(snapshot, m, qty) == qty > snapshot[m]

\* addToCart's new cart, once the input passed the checks
CartAfterAdd(c, m, qty, price) ==
  IF InCart(c, m)
    THEN [i \in 1..Len(c) |->
            IF c[i].medicineId = m
              THEN [c[i] EXCEPT !.quantity = c[i].quantity + qty,
                                !.totalPrice = (c[i].quantity + qty) * price]
              ELSE c[i]]
    ELSE Append(c, [medicineId |-> m, quantity |-> qty, unitPrice |-> price,
                    totalPrice |-> qty * price])

CartAfterRemove(c, m) == SelectSeq(c, LAMBDA item : item.medicineId # m)

\* fetchMedicines' query: select * from medicines where quantity > 0
Snapshot(table) == [m \in {x \in DOMAIN table : table[x] > 0} |-> table[m]]

\* ------------------------------------------------------------- the database

\* a faulty variant of CountToday: every row is counted, whatever its date
CountEveryDay(rows, day) == Len(rows)

\* generate_sale_number, run by the before-insert trigger: counts the rows
\* created on the current date and formats the next number.
CountToday(rows, day) == Cardinality({i \in 1..Len(rows) : rows[i].created_at = day})

\* 'SALE-' || TO_CHAR(CURRENT_DATE, 'YYYYMMDD') || '-' || LPAD(k::TEXT, 4, '0')
SaleNumberText(day, k) ==
  << "S", "A", "L", "E", "-" >> \o ToCharYYYYMMDD(Dates[day]) \o << "-" >>
    \o LPad(IntToText(k), PadLength, "0")

GenerateSaleNumber(rows, day) == SaleNumberText(day, CountToday(rows, day) + 1)

\* the sales table after n sales were recorded one after another on the first
\* day, each numbered by the trigger
Ledger(n) ==
  [i \in 1..n |-> [id |-> i, sale_number |-> SaleNumberText(1, i), cashier_id |-> "t1",
                   created_at |-> 1, total_amount |-> 0, payment_method |-> "cash",
                   customer_name |-> Null, customer_phone |-> Null]]

\* a faulty variant of UniqueViolation: the column carries no UNIQUE constraint
NoUniqueConstraint(rows, number) == FALSE

\* sale_number TEXT NOT NULL UNIQUE
UniqueViolation(rows, number) == \E i \in 1..Len(rows) : rows[i].sale_number = number

\* the sale_items rows a cart is mapped to, as the DECIMAL(10, 2) columns keep them
SaleItemRows(sale, c) ==
  { [sale_id |-> sale, medicine_id |-> c[i].medicineId, quantity |-> c[i].quantity,
     unit_price |-> ToNumeric(c[i].unitPrice),
     total_price |-> ToNumeric(c[i].totalPrice)] : i \in 1..Len(c) }

\* the line items of a sale
SaleLinesOf(sale_id) == {r \in sale_items : r.sale_id = sale_id}

ItemsFit(c) == \A i \in 1..Len(c) :
  /\ c[i].quantity > 0
  /\ NumericFits(c[i].unitPrice)
  /\ NumericFits(c[i].totalPrice)

\* ---------------------------------------------- the writes to medicines

\* SELECT admin_phone, low_stock_threshold INTO ... FROM admin_settings LIMIT 1:
\* the first row's columns, or nulls when the table is empty
AdminPhoneNumber(rows) == IF rows = << >> THEN Null ELSE << rows[1].admin_phone >>

StockThreshold(rows) == IF rows = << >> THEN Null ELSE rows[1].low_stock_threshold

\* the condition under which check_low_stock_and_alert calls the edge function
AlertDue(rows, op, old, new) ==
  /\ AdminPhoneNumber(rows) # Null
  /\ new < Coalesce(StockThreshold(rows), DefaultThreshold)
  /\ (op = "INSERT" \/ old >= Coalesce(StockThreshold(rows), DefaultThreshold))

\* PERFORM extensions.net.http_post(...): a function name of three parts reads
\* database.schema.function, and PostgreSQL raises 'cross-database references
\* are not implemented' unless the first part names the current database
HttpPostResolves(db) == db = "extensions"

\* what the trigger does to the statement that fired it: nothing, a request
\* queued for the edge function, or an error that aborts the statement
CheckLowStockAndAlert(rows, db, op, old, new) ==
  IF ~AlertDue(rows, op, old, new) THEN "none"
  ELSE IF HttpPostResolves(db) THEN "queued" ELSE "raised"

\* the body posted to send-low-stock-alert
AlertBody(name, new, rows) ==
  [medicineName |-> name, quantity |-> new, adminPhone |-> rows[1].admin_phone]

NoWrite == [op |-> "none", id |-> "", old |-> 0, new |-> Null, outcome |-> "none"]

\* the statement and its trigger went through
Committed(out) == out \in {"none", "queued"}

\* the outcome of UPDATE medicines SET quantity = q WHERE id = id, q being << >>
\* for a null: no row of that id, a null refused by NOT NULL, or the trigger's
UpdateOutcome(id, q) ==
  IF id \notin DOMAIN medicinesTable THEN "no row"
  ELSE IF q = Null THEN "not null"
  ELSE CheckLowStockAndAlert(admin_settings, database, "UPDATE", medicinesTable[id], q[1])

\* the update as one statement: the row, the queued request and the history
UpdateQuantity(id, q) ==
  LET out == UpdateOutcome(id, q)
      old == IF id \in DOMAIN medicinesTable THEN medicinesTable[id] ELSE 0
  IN /\ medicinesTable' = IF Committed(out)
                             THEN [medicinesTable EXCEPT ![id] = q[1]]
                             ELSE medicinesTable
     /\ alerts' = IF out = "queued"
                    THEN Append(alerts, AlertBody(medicineNames[id], q[1], admin_settings))
                    ELSE alerts
     /\ lastWrite' = [op |-> "UPDATE", id |-> id, old |-> old, new |-> q, outcome |-> out]

\* gen_random_uuid() for a new row of medicines
NewId(table) == NewIds[Cardinality(DOMAIN table \ MedicineId) + 1]

InsertOutcome(q) ==
  IF q = Null THEN "not null"
  ELSE CheckLowStockAndAlert(admin_settings, database, "INSERT", 0, q[1])

\* INSERT INTO medicines (name, quantity) VALUES (name, q) as one statement
InsertMedicine(name, q) ==
  LET out == InsertOutcome(q)
      id == NewId(medicinesTable)
  IN /\ medicinesTable' = IF Committed(out)
                             THEN (id :> q[1]) @@ medicinesTable
                             ELSE medicinesTable
     /\ medicineNames' = IF Committed(out)
                            THEN (id :> name) @@ medicineNames
                            ELSE medicineNames
     /\ alerts' = IF out = "queued"
                    THEN Append(alerts, AlertBody(name, q[1], admin_settings))
                    ELSE alerts
     /\ lastWrite' = [op |-> "INSERT", id |-> id, old |-> 0, new |-> q, outcome |-> out]

\* the statement came back with an error
Failed(out) == out \in {"not null", "raised"}

\* ------------------------------------------------- the access policies

\* has_role(auth.uid(), r): user_roles holds role r for the caller
HasRole(u, r) == r \in user_roles[u]

\* FOR SELECT ON sales: 'Admins can view all sales', 'Cashiers can view all sales'
MaySelectSale(u) == HasRole(u, "admin") \/ HasRole(u, "cashier")

\* a faulty variant of MayInsertSale: the cashier's policy does not look at
\* cashier_id
MayInsertSaleForAnyone(u, cashier_id) == HasRole(u, "cashier") \/ HasRole(u, "admin")

\* FOR INSERT ON sales: 'Cashiers can insert sales', 'Admins can insert sales'
MayInsertSale(u, cashier_id) ==
  \/ HasRole(u, "cashier") /\ cashier_id = u
  \/ HasRole(u, "admin")

\* FOR INSERT ON sale_items: 'Cashiers can insert sale items' (its subquery sees
\* the rows of sales the caller may select), 'Admins can insert sale items'
MayInsertSaleItem(u, sale_id) ==
  \/ \E i \in 1..Len(sales) :
       MaySelectSale(u) /\ sales[i].id = sale_id /\ sales[i].cashier_id = u
  \/ HasRole(u, "admin")

\* a faulty variant of MayChangeSale: admins hold a policy FOR ALL
AdminsMayChangeSale(u, op) == HasRole(u, "admin")

\* FOR UPDATE and FOR DELETE ON sales and ON sale_items: no policy is created,
\* and with row level security enabled no row is visible to such a statement
MayChangeSale(u, op) == FALSE

\* FOR INSERT and FOR DELETE ON medicines: the admins' policies only
MayInsertMedicine(u) == HasRole(u, "admin")

MayDeleteMedicine(u) == HasRole(u, "admin")

\* FOR UPDATE ON medicines: 'Admins can update medicines' and 'Cashiers can update
\* medicine quantity', whose USING clause names no column
MayUpdateMedicine(u, column) == HasRole(u, "admin") \/ HasRole(u, "cashier")

\* FOR UPDATE ON admin_settings: 'Admins can update admin settings'
MayUpdateAdminSettings(u) == HasRole(u, "admin")

\* sale_items.medicine_id REFERENCES medicines(id), with no ON DELETE clause
MedicineReferenced(id) == \E r \in sale_items : r.medicine_id = id

\* ------------------------------------------------------- the intake sync

\* the rows of medicines whose name is n
NameRows(table, names, n) == {id \in DOMAIN table : names[id] = n}

RowData(table, rows) ==
  LET id == CHOOSE x \in rows : TRUE IN << [id |-> id, quantity |-> table[id]] >>

\* .single(): the row, or the error PGRST116 when the rows are none or several
Single(table, rows) ==
  IF Cardinality(rows) = 1 THEN [data |-> RowData(table, rows), error |-> ""]
  ELSE [data |-> Null, error |-> "PGRST116"]

\* .maybeSingle(): no row is null without an error
MaybeSingle(table, rows) ==
  IF rows = {} THEN [data |-> Null, error |-> ""] ELSE Single(table, rows)

\* a faulty variant of MergedQuantity: the synced quantity replaces the stored one
ReplacedQuantity(existing, q) == q

\* existing.quantity + syncQuantity, NaN when syncQuantity is
MergedQuantity(existing, q) == IF q = NaN THEN NaN ELSE << existing.quantity + q[1] >>

\* ------------------------------------------------------------------ states

NoCall == [cart |-> << >>, medicines |-> << >>, number |-> << >>, created_at |-> 0,
           sale |-> 0, idx |-> 0]

\* History of a checkout: the cart and the snapshot it ran with, the stored
\* quantities when it started, the sale it inserted, the medicines whose stock
\* update succeeded, and how it ended.
NoAttempt == [cart |-> << >>, read |-> << >>, pre |-> << >>, sale |-> 0,
              result |-> "none", updated |-> {}]

\* no request was sent yet
NoRequest == [caller |-> "", table |-> "", op |-> "none", outcome |-> "none"]

\* the roles user_roles holds for the user signed in on a terminal: the role
\* useAuth hands to the pages, and for a component mounted without a role prop
\* a cashier's
SignedInRoles(r) == IF r = "unset" THEN {"cashier"} ELSE {r}

\* no sync is running
NoSync == [page |-> "", name |-> "", quantity |-> Null, batch |-> 0, existing |-> Null]

InFlightSyncs == Cardinality({t \in Terminal : pc[t] \in {"syncSelect", "syncWrite"}})

InFlight == Cardinality({t \in Terminal : pc[t] \in {"getUser", "saleRequest", "insertSale"}})

\* The state once every terminal has mounted its component and loaded its
\* snapshot: the stored quantities are one of stocks, the role props one of
\* roles, the database is named one of dbs, admin_settings holds one of
\* settings, and the two intake tables hold batches and supplied.
InitRows(stocks, roles, dbs, settings, batches, supplied, ledgers) ==
  /\ medicinesTable \in stocks
  /\ medicineNames = [m \in DOMAIN medicinesTable |-> NameOf(m)]
  /\ sales \in ledgers
  /\ sale_items = {}
  /\ today = 1
  /\ role \in roles
  /\ medicines = [t \in Terminal |-> Snapshot(medicinesTable)]
  /\ cart = [t \in Terminal |-> << >>]
  /\ customerName = [t \in Terminal |-> ""]
  /\ customerPhone = [t \in Terminal |-> ""]
  /\ paymentMethod = [t \in Terminal |-> "cash"]
  /\ pc = [t \in Terminal |-> "idle"]
  /\ call = [t \in Terminal |-> NoCall]
  /\ attempt = [t \in Terminal |-> NoAttempt]
  /\ saleNotifications = << >>
  /\ database \in dbs
  /\ admin_settings \in settings
  /\ alerts = << >>
  /\ lastWrite = NoWrite
  /\ products = batches
  /\ supplied_products = supplied
  /\ syncProduct = [t \in Terminal |-> Null]
  /\ syncQuantity = [t \in Terminal |-> << 0 >>]
  /\ syncCall = [t \in Terminal |-> NoSync]
  /\ user_roles = [t \in Terminal |-> SignedInRoles(role[t])]
  /\ request = NoRequest
  /\ activeTab = [t \in Terminal |-> "sales"]

\* the same before any sale was recorded
InitOf(stocks, roles, dbs, settings, batches, supplied) ==
  InitRows(stocks, roles, dbs, settings, batches, supplied, {<< >>})

\* the same, on a hosted database with no admin settings and no intake batch
InitWith(stocks, roles) ==
  InitOf(stocks, roles, {"postgres"}, {<< >>}, << >>, << >>)

\* ----------------------------------------------------------------- actions

\* addToCart, with the parsed form fields as its inputs. The cashier edits the
\* cart between checkouts, not while one is being processed.
AddToCart(t, sel, qty, price, lineCap) ==
  /\ pc[t] = "idle"
  /\ sel # NoSelection /\ qty > 0 /\ price > 0
  /\ sel \in DOMAIN medicines[t]
  /\ ~InsufficientStock(medicines[t], sel, qty)
  /\ InCart(cart[t], sel) => LineOf(cart[t], sel).quantity + qty <= lineCap
  /\ cart' = [cart EXCEPT ![t] = CartAfterAdd(cart[t], sel, qty, price)]
  /\ UNCHANGED << medicinesTable, sales, sale_items, today, role, medicines, pc,
                  call, attempt >>
  /\ UNCHANGED << form, dispatch, backOffice >>

\* addToCart on an input it rejects (invalid input, unknown medicine, insufficient
\* stock): a toast at most, and no change of state
AddToCartRejected(t, sel, qty, price) ==
  /\ pc[t] = "idle"
  /\ IF sel = NoSelection \/ qty <= 0 \/ price <= 0 THEN TRUE
     ELSE IF sel \notin DOMAIN medicines[t] THEN TRUE
     ELSE InsufficientStock(medicines[t], sel, qty)
  /\ UNCHANGED vars

\* the customer name, customer phone and payment method fields, edited between
\* checkouts
SetCustomerName(t, v) ==
  /\ pc[t] = "idle"
  /\ customerName' = [customerName EXCEPT ![t] = v]
  /\ UNCHANGED << medicinesTable, sales, sale_items, today, role, medicines, cart, pc,
                  call, attempt, customerPhone, paymentMethod, dispatch, backOffice >>

SetCustomerPhone(t, v) ==
  /\ pc[t] = "idle"
  /\ customerPhone' = [customerPhone EXCEPT ![t] = v]
  /\ UNCHANGED << medicinesTable, sales, sale_items, today, role, medicines, cart, pc,
                  call, attempt, customerName, paymentMethod, dispatch, backOffice >>

SetPaymentMethod(t, v) ==
  /\ pc[t] = "idle"
  /\ paymentMethod' = [paymentMethod EXCEPT ![t] = v]
  /\ UNCHANGED << medicinesTable, sales, sale_items, today, role, medicines, cart, pc,
                  call, attempt, customerName, customerPhone, dispatch, backOffice >>

\* MedicineList.handleSave: the quantity typed in the edit field is written to
\* the row; an error is toasted. While the scenario's cap of queued alerts is
\* not reached.
HandleSave(id, text, cap) ==
  /\ Len(alerts) < cap
  /\ id \in DOMAIN medicinesTable
  /\ UpdateQuantity(id, ParseInt(text))
  /\ UNCHANGED << sales, sale_items, today, role, medicines, cart, pc, call, attempt,
                  form, backOffice >>

\* AddMedicineForm.handleSubmit: a row with the typed name and quantity is
\* inserted; an error is toasted
HandleSubmit(name, text, cap, rowCap) ==
  /\ Len(alerts) < cap
  /\ Cardinality(DOMAIN medicinesTable \ MedicineId) < rowCap
  /\ InsertMedicine(name, ParseInt(text))
  /\ UNCHANGED << sales, sale_items, today, role, medicines, cart, pc, call, attempt,
                  form, saleNotifications, session, database, admin_settings, products,
                  supplied_products, syncProduct, syncQuantity, syncCall >>

\* ProductForm.handleSyncClick: the dialog opens on a batch, with the batch's
\* quantity in the field. The Products tab is not shown to a cashier.
HandleSyncClick(t, i) ==
  /\ pc[t] = "idle" /\ role[t] # "cashier"
  /\ i \in 1..Len(products)
  /\ syncProduct' = [syncProduct EXCEPT ![t] = << products[i] >>]
  /\ syncQuantity' = [syncQuantity EXCEPT ![t] = << products[i].quantity >>]
  /\ UNCHANGED << medicinesTable, medicineNames, sales, sale_items, today, role, medicines,
                  cart, pc, call, attempt, form, dispatch, saleNotifications, session, database,
                  admin_settings, products, supplied_products, syncCall >>

\* the quantity field of the dialog: setSyncQuantity(parseInt(e.target.value))
SetSyncQuantity(t, text) ==
  /\ pc[t] = "idle" /\ syncProduct[t] # Null
  /\ syncQuantity' = [syncQuantity EXCEPT ![t] = ParseInt(text)]
  /\ UNCHANGED << medicinesTable, medicineNames, sales, sale_items, today, role, medicines,
                  cart, pc, call, attempt, form, dispatch, saleNotifications, session, database,
                  admin_settings, products, supplied_products, syncProduct, syncCall >>

\* the Cancel button of the dialog
CancelSync(t) ==
  /\ pc[t] = "idle" /\ syncProduct[t] # Null
  /\ syncProduct' = [syncProduct EXCEPT ![t] = Null]
  /\ UNCHANGED << medicinesTable, medicineNames, sales, sale_items, today, role, medicines,
                  cart, pc, call, attempt, form, dispatch, saleNotifications, session, database,
                  admin_settings, products, supplied_products, syncQuantity, syncCall >>

\* the scenario's caps: no sync starts once the rows added to medicines and the
\* syncs under way exceed rowCap, or a stored quantity has left
\* -shelfCap..shelfCap
SyncAllowed(rowCap, shelfCap) ==
  /\ Cardinality(DOMAIN medicinesTable \ MedicineId) + InFlightSyncs <= rowCap
  /\ \A id \in DOMAIN medicinesTable :
       medicinesTable[id] <= shelfCap /\ medicinesTable[id] >= 0 - shelfCap

\* ProductForm.handleSyncConfirm up to its first await
HandleSyncConfirm(t, rowCap, shelfCap) ==
  /\ pc[t] = "idle"
  /\ IF syncProduct[t] = Null
       THEN UNCHANGED << pc, syncCall >>
       ELSE /\ SyncAllowed(rowCap, shelfCap)
            /\ pc' = [pc EXCEPT ![t] = "syncSelect"]
            /\ syncCall' = [syncCall EXCEPT ![t] =
                 [NoSync EXCEPT !.page = "products",
                                !.name = syncProduct[t][1].product_name,
                                !.quantity = syncQuantity[t],
                                !.batch = syncProduct[t][1].quantity]]
  /\ UNCHANGED << medicinesTable, medicineNames, sales, sale_items, today, role, medicines,
                  cart, call, attempt, form, dispatch, saleNotifications, session, database,
                  admin_settings, products, supplied_products, syncProduct, syncQuantity >>

\* Supplier.handleSyncToInventory up to its first await: admins only, and the
\* whole batch
HandleSyncToInventory(t, i, rowCap, shelfCap) ==
  /\ pc[t] = "idle"
  /\ i \in 1..Len(supplied_products)
  /\ IF role[t] # "admin"
       THEN UNCHANGED << pc, syncCall >>
       ELSE /\ SyncAllowed(rowCap, shelfCap)
            /\ pc' = [pc EXCEPT ![t] = "syncSelect"]
            /\ syncCall' = [syncCall EXCEPT ![t] =
                 [NoSync EXCEPT !.page = "supplier",
                                !.name = supplied_products[i].product_name,
                                !.quantity = << supplied_products[i].quantity >>,
                                !.batch = supplied_products[i].quantity]]
  /\ UNCHANGED << medicinesTable, medicineNames, sales, sale_items, today, role, medicines,
                  cart, call, attempt, form, dispatch, saleNotifications, session, database,
                  admin_settings, products, supplied_products, syncProduct, syncQuantity >>

\* the query for a medicine of the batch's name: ProductForm takes every
\* PGRST116 for 'no such medicine', the Supplier page throws on any error
SelectByName(t, ok) ==
  /\ pc[t] = "syncSelect"
  /\ LET rows == NameRows(medicinesTable, medicineNames, syncCall[t].name)
         res == IF ~ok THEN [data |-> Null, error |-> "fetch failed"]
                ELSE IF syncCall[t].page = "products" THEN Single(medicinesTable, rows)
                ELSE MaybeSingle(medicinesTable, rows)
         thrown == IF syncCall[t].page = "products"
                     THEN res.error \notin {"", "PGRST116"}
                     ELSE res.error # ""
     IN IF thrown
          THEN /\ pc' = [pc EXCEPT ![t] = "idle"]
               /\ syncCall' = [syncCall EXCEPT ![t] = NoSync]
          ELSE /\ pc' = [pc EXCEPT ![t] = "syncWrite"]
               /\ syncCall' = [syncCall EXCEPT ![t].existing = res.data]
  /\ UNCHANGED << medicinesTable, medicineNames, sales, sale_items, today, role, medicines,
                  cart, call, attempt, form, dispatch, saleNotifications, session, database,
                  admin_settings, products, supplied_products, syncProduct, syncQuantity >>

\* the write of the sync: the row that was read is raised, or a row is inserted;
\* on success ProductForm closes its dialog, on an error the toast is all
SyncWrite(t, ok) ==
  /\ pc[t] = "syncWrite"
  /\ pc' = [pc EXCEPT ![t] = "idle"]
  /\ syncCall' = [syncCall EXCEPT ![t] = NoSync]
  /\ LET c == syncCall[t]
         q == IF c.existing = Null THEN c.quantity
              ELSE MergedQuantity(c.existing[1], c.quantity)
         out == IF ~ok THEN "fetch failed"
                ELSE IF c.existing = Null THEN InsertOutcome(q)
                ELSE UpdateOutcome(c.existing[1].id, q)
     IN /\ IF ~ok THEN UNCHANGED << medicinesTable, medicineNames, dispatch >>
           ELSE IF c.existing = Null THEN InsertMedicine(c.name, q)
           ELSE UpdateQuantity(c.existing[1].id, q) /\ UNCHANGED medicineNames
        /\ syncProduct' = IF ok /\ ~Failed(out) /\ c.page = "products"
                            THEN [syncProduct EXCEPT ![t] = Null]
                            ELSE syncProduct
  /\ UNCHANGED << sales, sale_items, today, role, medicines, cart, call, attempt, form,
                  saleNotifications, session, database, admin_settings, products,
                  supplied_products, syncQuantity >>

\* The intake screens of the terminals T: syncs of the batches, with what may be
\* typed in the quantity field of the dialog.
SyncStep(T, texts, rowCap, shelfCap) ==
  \/ \E t \in T, i \in 1..Len(products) : HandleSyncClick(t, i)
  \/ \E t \in T, text \in texts : SetSyncQuantity(t, text)
  \/ \E t \in T : CancelSync(t)
  \/ \E t \in T : HandleSyncConfirm(t, rowCap, shelfCap)
  \/ \E t \in T, i \in 1..Len(supplied_products) :
        HandleSyncToInventory(t, i, rowCap, shelfCap)
  \/ \E t \in T, ok \in BOOLEAN : SelectByName(t, ok)
  \/ \E t \in T, ok \in BOOLEAN : SyncWrite(t, ok)

\* ------------------------------------------------- the intake forms

\* the hours of a day, for instants counted in hours from 00:00 UTC of day 0
HoursPerDay == 24

\* new Date("YYYY-MM-DD"): a date-only string is read as 00:00 UTC of that day
DateOnlyInstant(day) == day * HoursPerDay

\* the browser's calendar day at instant now, in a zone offset hours east of UTC
LocalDay(now, offset) == (now + offset) \div HoursPerDay

\* today = new Date(); today.setHours(0, 0, 0, 0): the instant of the browser's
\* local midnight
LocalMidnight(now, offset) == LocalDay(now, offset) * HoursPerDay - offset

\* productSchema.expiryDate: selectedDate > today
ExpiryDateValid(date, now, offset) == DateOnlyInstant(date) > LocalMidnight(now, offset)

\* ProductForm: form.handleSubmit(onSubmit) with a batch expiring on day date,
\* at instant now in a browser offset hours east of UTC. The schema's message is
\* shown and onSubmit not called when the date fails it; entered_on records the
\* browser's day.
OnSubmit(t, date, now, offset, cap) ==
  /\ pc[t] = "idle" /\ role[t] # "cashier"
  /\ Len(products) < cap
  /\ products' = IF ExpiryDateValid(date, now, offset)
                   THEN Append(products, [product_name |-> "Brufen", quantity |-> 1,
                                          expiry_date |-> date,
                                          entered_on |-> LocalDay(now, offset)])
                   ELSE products
  /\ UNCHANGED << medicinesTable, medicineNames, sales, sale_items, today, role, medicines,
                  cart, pc, call, attempt, form, dispatch, saleNotifications, session,
                  database, admin_settings, supplied_products, syncProduct, syncQuantity,
                  syncCall >>

\* Supplier.handleProductSubmit: admins only; the date input is required and
\* nothing else is asked of it
HandleProductSubmit(t, date, now, offset, cap) ==
  /\ pc[t] = "idle"
  /\ Len(supplied_products) < cap
  /\ supplied_products' =
       IF role[t] # "admin" THEN supplied_products
       ELSE Append(supplied_products, [product_name |-> "Brufen", quantity |-> 1,
                                       expiry_date |-> date,
                                       entered_on |-> LocalDay(now, offset)])
  /\ UNCHANGED << medicinesTable, medicineNames, sales, sale_items, today, role, medicines,
                  cart, pc, call, attempt, form, dispatch, saleNotifications, session,
                  database, admin_settings, products, syncProduct, syncQuantity,
                  syncCall >>

\* ------------------------------------------------------ the Manager page

Tabs == {"sales", "pos", "cctv", "supplier", "products"}

\* const restrictedTabs = ["cctv", "supplier", "products"]
restrictedTabs == {"cctv", "supplier", "products"}

\* a faulty variant of Restricted: no tab is kept from anyone
RestrictedForNobody(r, tab) == FALSE

\* role === "cashier" && restrictedTabs.includes(tab)
Restricted(r, tab) == r = "cashier" /\ tab \in restrictedTabs

\* what the TabsContent of the active tab renders for a user of role r
TabContent(r, tab) ==
  CASE tab = "sales" -> "SalesReports"
    [] tab = "pos" -> "POSSystem"
    [] tab = "cctv" -> IF r # "cashier" THEN "CCTVMonitor" ELSE ""
    [] tab = "supplier" -> IF r # "cashier" THEN "SupplierForm" ELSE ""
    [] tab = "products" -> IF r # "cashier" THEN "ProductForm" ELSE ""

\* handleTabChange(tab), from a TabsTrigger, a tab button or any other caller
HandleTabChange(t, tab) ==
  /\ activeTab' = IF Restricted(role[t], tab) THEN activeTab
                  ELSE [activeTab EXCEPT ![t] = tab]
  /\ UNCHANGED << medicinesTable, medicineNames, sales, sale_items, today, role, medicines,
                  cart, pc, call, attempt, form, dispatch, saleNotifications, user_roles,
                  request, database, admin_settings, products, supplied_products,
                  syncProduct, syncQuantity, syncCall >>

\* ------------------------------------------- requests to the data API

\* the history of a request by caller u
Request(u, table, op, outcome) ==
  [caller |-> u, table |-> table, op |-> op, outcome |-> outcome]

\* a line item as a caller may post it: the k-th unit line of a sale
ItemRow(sale_id, k) ==
  [sale_id |-> sale_id, medicine_id |-> "m1", quantity |-> k, unit_price |-> 10000,
   total_price |-> k * 10000]

\* POST /sales by caller u with cashier_id in the body and no sale_number: the
\* before-insert trigger numbers the row, the policy's WITH CHECK refuses it with
\* an error, and so does a sale_number already taken
ApiInsertSale(u, cashier_id, cap) ==
  /\ Len(sales) < cap
  /\ LET number == GenerateSaleNumber(sales, today)
         out == IF ~MayInsertSale(u, cashier_id) THEN "denied"
                ELSE IF UniqueViolation(sales, number) THEN "conflict" ELSE "done"
     IN /\ sales' = IF out = "done"
                      THEN Append(sales,
                             [id |-> Len(sales) + 1, sale_number |-> number,
                              cashier_id |-> cashier_id, created_at |-> today,
                              total_amount |-> 0, payment_method |-> "cash",
                              customer_name |-> Null, customer_phone |-> Null])
                      ELSE sales
        /\ request' = Request(u, "sales", "INSERT", out)
  /\ UNCHANGED << medicinesTable, medicineNames, sale_items, today, role, medicines, cart,
                  pc, call, attempt, form, dispatch, saleNotifications, user_roles,
                  activeTab, database, admin_settings, products, supplied_products,
                  syncProduct, syncQuantity, syncCall >>

\* POST /sale_items by caller u for the sale sale_id
ApiInsertSaleItem(u, sale_id, cap) ==
  /\ Cardinality(sale_items) < cap
  /\ LET row == ItemRow(sale_id, Cardinality(SaleLinesOf(sale_id)) + 1)
         out == IF ~MayInsertSaleItem(u, sale_id) THEN "denied"
                ELSE IF \A i \in 1..Len(sales) : sales[i].id # sale_id THEN "no parent"
                ELSE IF row.medicine_id \notin DOMAIN medicinesTable THEN "no parent"
                ELSE "done"
     IN /\ sale_items' = IF out = "done" THEN sale_items \cup {row} ELSE sale_items
        /\ request' = Request(u, "sale_items", "INSERT", out)
  /\ UNCHANGED << medicinesTable, medicineNames, sales, today, role, medicines, cart,
                  pc, call, attempt, form, dispatch, saleNotifications, user_roles,
                  activeTab, database, admin_settings, products, supplied_products,
                  syncProduct, syncQuantity, syncCall >>

\* PATCH /sales?id=eq.id (a new total_amount) and DELETE /sales?id=eq.id by
\* caller u: the rows the caller's policies for the operation let through are
\* changed, and none is not an error; a deleted sale takes its line items along
ApiChangeSale(u, id, op) ==
  /\ \E i \in 1..Len(sales) : sales[i].id = id
  /\ LET hit == MayChangeSale(u, op)
     IN /\ sales' = IF ~hit THEN sales
                    ELSE IF op = "DELETE"
                      THEN SelectSeq(sales, LAMBDA row : row.id # id)
                    ELSE [i \in 1..Len(sales) |->
                            IF sales[i].id = id
                              THEN [sales[i] EXCEPT !.total_amount = 1000]
                              ELSE sales[i]]
        /\ sale_items' = IF hit /\ op = "DELETE"
                           THEN {r \in sale_items : r.sale_id # id}
                           ELSE sale_items
        /\ request' = Request(u, "sales", op, IF hit THEN "done" ELSE "no rows")
  /\ UNCHANGED << medicinesTable, medicineNames, today, role, medicines, cart,
                  pc, call, attempt, form, dispatch, saleNotifications, user_roles,
                  activeTab, database, admin_settings, products, supplied_products,
                  syncProduct, syncQuantity, syncCall >>

\* PATCH (a new quantity) and DELETE of the line item row of sale_items
ApiChangeSaleItem(u, row, op) ==
  /\ row \in sale_items
  /\ LET hit == MayChangeSale(u, op)
     IN /\ sale_items' = IF ~hit THEN sale_items
                         ELSE IF op = "DELETE" THEN sale_items \ {row}
                         ELSE (sale_items \ {row}) \cup {[row EXCEPT !.quantity = @ + 1]}
        /\ request' = Request(u, "sale_items", op, IF hit THEN "done" ELSE "no rows")
  /\ UNCHANGED << medicinesTable, medicineNames, sales, today, role, medicines, cart,
                  pc, call, attempt, form, dispatch, saleNotifications, user_roles,
                  activeTab, database, admin_settings, products, supplied_products,
                  syncProduct, syncQuantity, syncCall >>

\* POST /medicines by caller u
ApiInsertMedicine(u, name, q, rowCap) ==
  /\ Cardinality(DOMAIN medicinesTable \ MedicineId) < rowCap
  /\ IF MayInsertMedicine(u)
       THEN /\ InsertMedicine(name, << q >>)
            /\ request' = Request(u, "medicines", "INSERT",
                                  IF Committed(InsertOutcome(<< q >>)) THEN "done"
                                  ELSE "error")
       ELSE /\ request' = Request(u, "medicines", "INSERT", "denied")
            /\ UNCHANGED << medicinesTable, medicineNames, dispatch >>
  /\ UNCHANGED << sales, sale_items, today, role, medicines, cart,
                  pc, call, attempt, form, saleNotifications, user_roles,
                  activeTab, database, admin_settings, products, supplied_products,
                  syncProduct, syncQuantity, syncCall >>

\* PATCH /medicines?id=eq.id by caller u, of the name or of the quantity
ApiUpdateMedicine(u, id, column, name, q) ==
  /\ id \in DOMAIN medicinesTable
  /\ IF ~MayUpdateMedicine(u, column)
       THEN /\ request' = Request(u, "medicines", "UPDATE", "no rows")
            /\ UNCHANGED << medicinesTable, medicineNames, dispatch >>
       ELSE IF column = "name"
         THEN /\ medicineNames' = [medicineNames EXCEPT ![id] = name]
              /\ request' = Request(u, "medicines", "UPDATE", "done")
              /\ UNCHANGED << medicinesTable, dispatch >>
         ELSE /\ UpdateQuantity(id, << q >>)
              /\ request' = Request(u, "medicines", "UPDATE",
                                    IF Committed(UpdateOutcome(id, << q >>)) THEN "done"
                                    ELSE "error")
              /\ UNCHANGED medicineNames
  /\ UNCHANGED << sales, sale_items, today, role, medicines, cart,
                  pc, call, attempt, form, saleNotifications, user_roles,
                  activeTab, database, admin_settings, products, supplied_products,
                  syncProduct, syncQuantity, syncCall >>

\* DELETE /medicines?id=eq.id by caller u (MedicineList.handleDelete sends it for
\* an admin); a medicine some line item refers to cannot go
ApiDeleteMedicine(u, id) ==
  /\ id \in DOMAIN medicinesTable
  /\ LET out == IF ~MayDeleteMedicine(u) THEN "no rows"
                ELSE IF MedicineReferenced(id) THEN "error" ELSE "done"
         kept == DOMAIN medicinesTable \ {id}
     IN /\ medicinesTable' = IF out = "done" THEN [m \in kept |-> medicinesTable[m]]
                             ELSE medicinesTable
        /\ medicineNames' = IF out = "done" THEN [m \in kept |-> medicineNames[m]]
                            ELSE medicineNames
        /\ request' = Request(u, "medicines", "DELETE", out)
  /\ UNCHANGED << sales, sale_items, today, role, medicines, cart,
                  pc, call, attempt, form, dispatch, saleNotifications, user_roles,
                  activeTab, database, admin_settings, products, supplied_products,
                  syncProduct, syncQuantity, syncCall >>

\* PATCH /admin_settings by caller u with a new low_stock_threshold (th is
\* << >> for a null): the rows the caller may update are changed
ApiUpdateAdminSettings(u, th) ==
  /\ admin_settings # << >>
  /\ admin_settings' =
       IF MayUpdateAdminSettings(u)
         THEN [i \in 1..Len(admin_settings) |->
                 [admin_settings[i] EXCEPT !.low_stock_threshold = th]]
         ELSE admin_settings
  /\ request' = Request(u, "admin_settings", "UPDATE",
                        IF MayUpdateAdminSettings(u) THEN "done" ELSE "no rows")
  /\ UNCHANGED << medicinesTable, medicineNames, sales, sale_items, today, role, medicines,
                  cart, pc, call, attempt, form, dispatch, saleNotifications, user_roles,
                  activeTab, database, products, supplied_products, syncProduct,
                  syncQuantity, syncCall >>

\* The callers U of the data API, sending any request their session lets them
\* build: at most cap sales and lineCap line items, rowCap new medicines.
ApiStep(U, cap, lineCap, rowCap) ==
  \/ \E u \in U, c \in U : ApiInsertSale(u, c, cap)
  \/ \E u \in U, id \in 1..cap : ApiInsertSaleItem(u, id, lineCap)
  \/ \E u \in U, id \in 1..cap, op \in {"UPDATE", "DELETE"} : ApiChangeSale(u, id, op)
  \/ \E u \in U, id \in 1..cap, k \in 1..lineCap, op \in {"UPDATE", "DELETE"} :
        ApiChangeSaleItem(u, ItemRow(id, k), op)
  \/ \E u \in U, q \in {1} : ApiInsertMedicine(u, "Brufen", q, rowCap)
  \/ \E u \in U, id \in MedicineId, column \in {"name", "quantity"} :
        ApiUpdateMedicine(u, id, column, "Panadol Extra", 1)
  \/ \E u \in U, id \in MedicineId : ApiDeleteMedicine(u, id)

RemoveFromCart(t, m) ==
  /\ pc[t] = "idle"
  /\ InCart(cart[t], m)
  /\ cart' = [cart EXCEPT ![t] = CartAfterRemove(cart[t], m)]
  /\ UNCHANGED << medicinesTable, sales, sale_items, today, role, medicines, pc,
                  call, attempt >>
  /\ UNCHANGED << form, dispatch, backOffice >>

\* a faulty variant of CompleteSale: the empty cart is not turned away
CompleteSaleUnchecked(t, cap) ==
  /\ pc[t] = "idle"
  /\ Len(sales) + InFlight < cap
  /\ pc' = [pc EXCEPT ![t] = "getUser"]
  /\ call' = [call EXCEPT ![t] = [NoCall EXCEPT !.cart = cart[t],
                                               !.medicines = medicines[t]]]
  /\ attempt' = [attempt EXCEPT ![t] =
       [NoAttempt EXCEPT !.cart = cart[t], !.read = medicines[t],
                         !.pre = medicinesTable, !.result = "running"]]
  /\ UNCHANGED << medicinesTable, sales, sale_items, today, role, medicines, cart,
                  form, dispatch, backOffice >>

\* completeSale up to its first await; an empty cart returns at once, with a
\* toast
CompleteSale(t, cap) ==
  /\ pc[t] = "idle"
  /\ IF cart[t] = << >>
       THEN /\ attempt' = [attempt EXCEPT ![t] =
                 [NoAttempt EXCEPT !.result = "empty cart"]]
            /\ UNCHANGED << medicinesTable, sales, sale_items, today, role,
                            medicines, cart, pc, call, form, dispatch, backOffice >>
       ELSE /\ Len(sales) + InFlight < cap
            /\ pc' = [pc EXCEPT ![t] = "getUser"]
            /\ call' = [call EXCEPT ![t] = [NoCall EXCEPT !.cart = cart[t],
                                                         !.medicines = medicines[t]]]
            /\ attempt' = [attempt EXCEPT ![t] =
                 [NoAttempt EXCEPT !.cart = cart[t], !.read = medicines[t],
                                   !.pre = medicinesTable, !.result = "running"]]
            /\ UNCHANGED << medicinesTable, sales, sale_items, today, role,
                            medicines, cart >>
            /\ UNCHANGED << form, dispatch, backOffice >>

\* the catch block: the error is logged and toasted, the cart is kept
Throw(t, where) ==
  /\ pc' = [pc EXCEPT ![t] = "idle"]
  /\ call' = [call EXCEPT ![t] = NoCall]
  /\ attempt' = [attempt EXCEPT ![t].result = where]

\* supabase.auth.getUser(): no user throws 'Not authenticated'
GetUser(t, user) ==
  /\ pc[t] = "getUser"
  /\ IF user
       THEN /\ pc' = [pc EXCEPT ![t] = "saleRequest"]
            /\ UNCHANGED << call, attempt >>
       ELSE Throw(t, "failed auth")
  /\ UNCHANGED << medicinesTable, sales, sale_items, today, role, medicines, cart >>
  /\ UNCHANGED << form, dispatch, backOffice >>

\* the insert into sales reaches the database, whose before-insert trigger
\* set_sale_number fills the empty sale_number; or the request fails
SetSaleNumber(t, ok) ==
  /\ pc[t] = "saleRequest"
  /\ IF ok /\ NumericFits(CalculateTotal(call[t].cart))
       THEN /\ pc' = [pc EXCEPT ![t] = "insertSale"]
            /\ call' = [call EXCEPT ![t].number = GenerateSaleNumber(sales, today),
                                    ![t].created_at = today]
            /\ UNCHANGED attempt
       ELSE Throw(t, "failed sale")
  /\ UNCHANGED << medicinesTable, sales, sale_items, today, role, medicines, cart >>
  /\ UNCHANGED << form, dispatch, backOffice >>

\* the row is inserted and committed, unless its sale_number is already taken
InsertSale(t) ==
  /\ pc[t] = "insertSale"
  /\ IF UniqueViolation(sales, call[t].number)
       THEN /\ Throw(t, "failed sale")
            /\ UNCHANGED sales
       ELSE /\ sales' = Append(sales,
                 [id |-> Len(sales) + 1, sale_number |-> call[t].number,
                  cashier_id |-> t, created_at |-> call[t].created_at,
                  total_amount |-> ToNumeric(CalculateTotal(call[t].cart)),
                  payment_method |-> paymentMethod[t],
                  customer_name |-> OrNull(customerName[t]),
                  customer_phone |-> OrNull(customerPhone[t])])
            /\ pc' = [pc EXCEPT ![t] = "insertItems"]
            /\ call' = [call EXCEPT ![t].sale = Len(sales) + 1]
            /\ attempt' = [attempt EXCEPT ![t].sale = Len(sales) + 1]
  /\ UNCHANGED << medicinesTable, sale_items, today, role, medicines, cart >>
  /\ UNCHANGED << form, dispatch, backOffice >>

\* where completeSale goes once the line items are stored: the manual stock
\* update runs for role 'admin' only
AfterItems(r) == IF r = "admin" THEN "updateStock" ELSE "finish"

\* a faulty variant of InsertSaleItems: the stock of the first line is reduced
\* before the outcome of the insert is looked at
InsertSaleItemsStockFirst(t, ok) ==
  /\ pc[t] = "insertItems"
  /\ LET item == call[t].cart[1]
     IN medicinesTable' = [medicinesTable EXCEPT ![item.medicineId] = @ - item.quantity]
  /\ IF ok /\ ItemsFit(call[t].cart)
       THEN /\ sale_items' = sale_items \cup SaleItemRows(call[t].sale, call[t].cart)
            /\ pc' = [pc EXCEPT ![t] = AfterItems(role[t])]
            /\ call' = [call EXCEPT ![t].idx = 1]
            /\ UNCHANGED attempt
       ELSE /\ Throw(t, "failed items")
            /\ UNCHANGED sale_items
  /\ UNCHANGED << sales, today, role, medicines, cart >>
  /\ UNCHANGED << form, dispatch, backOffice >>

\* the insert of the line items: all rows or none
InsertSaleItems(t, ok) ==
  /\ pc[t] = "insertItems"
  /\ IF ok /\ ItemsFit(call[t].cart)
       THEN /\ sale_items' = sale_items \cup SaleItemRows(call[t].sale, call[t].cart)
            /\ pc' = [pc EXCEPT ![t] = AfterItems(role[t])]
            /\ call' = [call EXCEPT ![t].idx = 1]
            /\ UNCHANGED attempt
       ELSE /\ Throw(t, "failed items")
            /\ UNCHANGED sale_items
  /\ UNCHANGED << medicinesTable, sales, today, role, medicines, cart >>
  /\ UNCHANGED << form, dispatch, backOffice >>

\* the quantity the manual update writes: the snapshot's quantity less the line's
NewQuantity(snapshot, item) == snapshot[item.medicineId] - item.quantity

\* one turn of the loop over the cart: the update's error is never looked at
UpdateStock(t, ok) ==
  /\ pc[t] = "updateStock"
  /\ LET c == call[t].cart
         i == call[t].idx
     IN IF i > Len(c)
          THEN /\ pc' = [pc EXCEPT ![t] = "finish"]
               /\ UNCHANGED << medicinesTable, call, attempt, dispatch >>
          ELSE /\ call' = [call EXCEPT ![t].idx = i + 1]
               /\ IF ok /\ c[i].medicineId \in DOMAIN call[t].medicines
                    THEN LET q == << NewQuantity(call[t].medicines, c[i]) >>
                         IN /\ UpdateQuantity(c[i].medicineId, q)
                            /\ attempt' = [attempt EXCEPT ![t].updated =
                                 IF Committed(UpdateOutcome(c[i].medicineId, q))
                                   THEN @ \cup {c[i].medicineId} ELSE @]
                    ELSE UNCHANGED << medicinesTable, attempt, dispatch >>
               /\ UNCHANGED pc
  /\ UNCHANGED << sales, sale_items, today, role, medicines, cart, form, backOffice >>

\* fetchMedicines' effect on the snapshot: replaced by the rows in stock, or kept
\* when the query fails (an error toast)
FetchMedicines(snapshot, table, ok) == IF ok THEN Snapshot(table) ELSE snapshot

\* the 'Sale Completed' toast, the reset of the form and the reload of the
\* snapshot
Finish(t, ok) ==
  /\ pc[t] = "finish"
  /\ pc' = [pc EXCEPT ![t] = "idle"]
  /\ cart' = [cart EXCEPT ![t] = << >>]
  /\ call' = [call EXCEPT ![t] = NoCall]
  /\ medicines' = [medicines EXCEPT ![t] = FetchMedicines(@, medicinesTable, ok)]
  /\ customerName' = [customerName EXCEPT ![t] = ""]
  /\ customerPhone' = [customerPhone EXCEPT ![t] = ""]
  /\ paymentMethod' = [paymentMethod EXCEPT ![t] = "cash"]
  /\ attempt' = [attempt EXCEPT ![t].result = "completed"]
  /\ UNCHANGED << medicinesTable, sales, sale_items, today, role, dispatch, backOffice >>

\* midnight on the database clock
AdvanceDay ==
  /\ today < Len(Dates)
  /\ today' = today + 1
  /\ UNCHANGED << medicinesTable, sales, sale_items, role, medicines, cart, pc,
                  call, attempt >>
  /\ UNCHANGED << form, dispatch, backOffice >>

\* The steps of a scenario sc: its terminals T sell the medicines M in quantities
\* Q at unit prices P, with at most cap sales recorded and lineCap units on a
\* cart line.
Step(sc) ==
  \/ \E t \in sc.T, sel \in sc.M \cup {NoSelection}, qty \in sc.Q \cup {0},
        price \in sc.P \cup {0} : AddToCart(t, sel, qty, price, sc.lineCap)
  \/ \E t \in sc.T, sel \in sc.M \cup {NoSelection}, qty \in sc.Q \cup {0},
        price \in sc.P \cup {0} : AddToCartRejected(t, sel, qty, price)
  \/ \E t \in sc.T, m \in sc.M : RemoveFromCart(t, m)
  \/ \E t \in sc.T : CompleteSale(t, sc.cap)
  \/ \E t \in sc.T, user \in BOOLEAN : GetUser(t, user)
  \/ \E t \in sc.T, ok \in BOOLEAN : SetSaleNumber(t, ok)
  \/ \E t \in sc.T : InsertSale(t)
  \/ \E t \in sc.T, ok \in BOOLEAN : InsertSaleItems(t, ok)
  \/ \E t \in sc.T, ok \in BOOLEAN : UpdateStock(t, ok)
  \/ \E t \in sc.T, ok \in BOOLEAN : Finish(t, ok)

\* One till on one day: a single terminal of any role, selling both medicines at
\* a price typed with a third decimal.
Till == [T |-> {"t1"}, M |-> MedicineId, Q |-> {MaxStock - 1, MaxStock}, P |-> {2504},
         cap |-> MaxTillSales, lineCap |-> MaxStock + 1]
InitTill == InitWith([MedicineId -> {MaxStock}],
                     {r \in [Terminal -> Roles] : r["t2"] = "unset"})
NextTill == Step(Till)
SpecTill == InitTill /\ [][NextTill]_vars

\* Two admin tills selling the same medicine at once, over two days.
Race == [T |-> Terminal, M |-> {"m1"}, Q |-> {MaxStock}, P |-> {10000},
         cap |-> MaxSales, lineCap |-> MaxStock]
InitRace == InitWith([MedicineId -> {MaxStock}], {[t \in Terminal |-> "admin"]})
NextRace == Step(Race) \/ AdvanceDay
SpecRace == InitRace /\ [][NextRace]_vars

\* One till over two days: the sales are inserted one after another.
Numbering == [T |-> {"t1"}, M |-> {"m1"}, Q |-> {1}, P |-> {10000},
              cap |-> MaxSales, lineCap |-> 1]
InitNumbering == InitWith([MedicineId -> {MaxStock}],
                          {r \in [Terminal -> {"admin", "cashier"}] : r["t2"] = "cashier"})
NextNumbering == Step(Numbering) \/ AdvanceDay
SpecNumbering == InitNumbering /\ [][NextNumbering]_vars

\* What the customer and payment fields of the checkout form may hold.
CustomerNames == {"", "Asha"}
CustomerPhones == {"", "0700"}
PaymentMethods == {"cash", "mpesa", "card"}

\* One till and one checkout, whose cashier fills the whole form and may enter a
\* different unit price each time the medicine is added.
Form == [T |-> {"t1"}, M |-> {"m1"}, Q |-> {1}, P |-> {10000, 12000},
         cap |-> 1, lineCap |-> MaxStock]
InitForm == InitWith([MedicineId -> {MaxStock}],
                     {r \in [Terminal -> Roles] : r["t2"] = "unset"})
NextForm ==
  \/ Step(Form)
  \/ \E t \in Form.T, v \in CustomerNames : SetCustomerName(t, v)
  \/ \E t \in Form.T, v \in CustomerPhones : SetCustomerPhone(t, v)
  \/ \E t \in Form.T, v \in PaymentMethods : SetPaymentMethod(t, v)
SpecForm == InitForm /\ [][NextForm]_vars

\* What admin_settings may hold: no row, or one row with the admin's phone and
\* a threshold that is null, the default or a lower one.
Thresholds == {Null, << DefaultThreshold >>, << DefaultThreshold \div 2 >>}
SettingsRows == {<< >>} \cup
  {<< [admin_phone |-> "+254700000000", low_stock_threshold |-> th] >> : th \in Thresholds}

\* What the quantity fields of the inventory forms may hold.
QuantityTexts == {<< >>, << "3" >>, << "5" >>, << "1", "5" >>, << "2", "0" >>}

\* The inventory screens of an admin: the quantity of Panadol, 20 at first, is
\* edited and rows of Brufen are added, on a database hosted under the name
\* postgres or on one that is itself named extensions.
InitAlert == InitOf({[m \in {"m1"} |-> 2 * DefaultThreshold]},
                    {[t \in Terminal |-> "admin"]}, {"postgres", "extensions"},
                    SettingsRows, << >>, << >>)
NextAlert ==
  \/ \E id \in {"m1"} \cup {NewIds[i] : i \in 1..MaxNewRows}, text \in QuantityTexts :
        HandleSave(id, text, MaxAlerts)
  \/ \E text \in QuantityTexts : HandleSubmit("Brufen", text, MaxAlerts, MaxNewRows)
SpecAlert == InitAlert /\ [][NextAlert]_vars

\* What the quantity field of the sync dialog may hold: nothing, 0, -1, 1, and
\* one more than the batch.
SyncTexts == {<< >>, << "0" >>, << "-", "1" >>, << "1" >>, << "3" >>}

\* The batches taken in: two units of Brufen and one of Panadol through
\* ProductForm, one unit of Brufen through the Supplier page.
Batches == << [product_name |-> "Brufen", quantity |-> 2],
              [product_name |-> "Panadol", quantity |-> 1] >>
Supplied == << [product_name |-> "Brufen", quantity |-> 1] >>

\* the admin settings of the intake scenarios: none, or a phone with the default
\* threshold
IntakeSettings == {<< >>,
  << [admin_phone |-> "+254700000000", low_stock_threshold |-> Null] >>}

\* One user syncing batches one after another: Panadol is in stock, Brufen is
\* not.
InitIntake == InitOf({[m \in {"m1"} |-> MaxStock]},
                     {r \in [Terminal -> {"admin", "cashier"}] : r["t2"] = "admin"},
                     {"postgres"}, IntakeSettings, Batches, Supplied)
NextIntake == SyncStep({"t1"}, SyncTexts, MaxNewRows, MaxShelf)
SpecIntake == InitIntake /\ [][NextIntake]_vars

\* Two admins syncing at the same time.
InitSyncRace == InitOf({[m \in {"m1"} |-> MaxStock]}, {[t \in Terminal |-> "admin"]},
                       {"postgres"}, IntakeSettings, Batches, Supplied)
NextSyncRace == SyncStep(Terminal, {<< "1" >>}, MaxNewRows, MaxShelf)
SpecSyncRace == InitSyncRace /\ [][NextSyncRace]_vars

\* An admin till selling Panadol while another admin syncs the supplied batches.
Counter == [T |-> {"t1"}, M |-> {"m1"}, Q |-> {1}, P |-> {10000},
            cap |-> MaxTillSales, lineCap |-> 1]
InitMixed == InitOf({[m \in {"m1"} |-> MaxStock]}, {[t \in Terminal |-> "admin"]},
                    {"postgres"}, {<< >>}, Batches, Supplied)
NextMixed == Step(Counter) \/ SyncStep({"t2"}, {<< "1" >>}, MaxNewRows, MaxShelf)
SpecMixed == InitMixed /\ [][NextMixed]_vars

\* The data API under the access policies: a cashier on each terminal, or a
\* cashier and an admin, sending requests of their own making.
InitPolicy == InitWith([MedicineId -> {MaxStock}],
                       {r \in [Terminal -> {"admin", "cashier"}] : r["t1"] = "cashier"})
NextPolicy == ApiStep(Terminal, MaxTillSales, MaxTillSales + 1, MaxNewRows)
SpecPolicy == InitPolicy /\ [][NextPolicy]_vars

\* The intake forms on one admin's browser: expiry days around the day of entry,
\* at three hours of day 1 (UTC) and in three time zones (New York, London in
\* winter, Nairobi).
ExpiryDays == 0..3
Instants == {HoursPerDay + 1, HoursPerDay + 12, HoursPerDay + 22}
ZoneOffsets == {0 - 5, 0, 3}
InitExpiry == InitOf({[m \in {"m1"} |-> MaxStock]}, {[t \in Terminal |-> "admin"]},
                     {"postgres"}, {<< >>}, << >>, << >>)
NextExpiry ==
  \/ \E date \in ExpiryDays, now \in Instants, offset \in ZoneOffsets :
        OnSubmit("t1", date, now, offset, MaxBatches)
  \/ \E date \in ExpiryDays, now \in Instants, offset \in ZoneOffsets :
        HandleProductSubmit("t1", date, now, offset, MaxBatches)
SpecExpiry == InitExpiry /\ [][NextExpiry]_vars

\* The Manager page open on both terminals, for users of any role (a user with
\* no role among them).
InitManager == InitWith([MedicineId -> {MaxStock}], [Terminal -> Roles])
NextManager == \E t \in Terminal, tab \in Tabs : HandleTabChange(t, tab)
SpecManager == InitManager /\ [][NextManager]_vars

\* The end of a very busy day: the sales table holds all but a few of the
\* numbers four digits can tell apart, and sales keep coming in one at a time.
PaddedNumbers == 10 ^ PadLength - 1
InitLedger == InitRows([MedicineId -> {MaxStock}], [Terminal -> {"admin", "cashier"}],
                       {"postgres"}, {<< >>}, << >>, << >>,
                       {Ledger(n) : n \in (PaddedNumbers - MaxHeadroom)..PaddedNumbers})
NextLedger == \E u \in Terminal, c \in Terminal : ApiInsertSale(u, c, PaddedNumbers + 1)
SpecLedger == InitLedger /\ [][NextLedger]_vars

\* The inventory screen of an admin while the low-stock threshold is being
\* changed: an admin phone is configured from the start, Panadol starts at 20,
\* at or above every threshold the setting may take.
ThresholdChoices == {<< DefaultThreshold \div 2 >>, << DefaultThreshold >>,
                     << 2 * DefaultThreshold >>}
InitSettings == InitOf({[m \in {"m1"} |-> 2 * DefaultThreshold]},
                       {r \in [Terminal -> {"admin", "cashier"}] : r["t1"] = "admin"},
                       {"postgres", "extensions"}, SettingsRows \ {<< >>}, << >>, << >>)
NextSettings ==
  \/ \E text \in QuantityTexts : HandleSave("m1", text, MaxAlerts)
  \/ \E u \in Terminal, th \in ThresholdChoices : ApiUpdateAdminSettings(u, th)
SpecSettings == InitSettings /\ [][NextSettings]_vars

\* ------------------------------------------------------------- properties

Completed(t) == attempt[t].result = "completed"

CartMedicines(c) == {c[i].medicineId : i \in 1..Len(c)}

SaleExists(id) == \E i \in 1..Len(sales) : sales[i].id = id

SaleLines(id) == {r \in sale_items : r.sale_id = id}

RECURSIVE SumLines(_)
SumLines(rows) == IF rows = {} THEN 0
                  ELSE LET r == CHOOSE x \in rows : TRUE
                       IN r.total_price + SumLines(rows \ {r})

\* C1: for every sale whose checkout completed, the stored total_amount equals
\* the sum of total_price over the line items stored for that sale.
C1_TotalIsSumOfLines ==
  \A t \in Terminal : Completed(t) =>
    sales[attempt[t].sale].total_amount = SumLines(SaleLines(attempt[t].sale))

\* C2: after a checkout that completed, the stored quantity of every medicine of
\* the cart is its stored quantity before the checkout less the quantity sold,
\* whatever the role.
C2_StockReducedBySale ==
  \A t \in Terminal : Completed(t) =>
    \A i \in 1..Len(attempt[t].cart) :
      LET item == attempt[t].cart[i]
      IN medicinesTable[item.medicineId] = attempt[t].pre[item.medicineId] - item.quantity

\* C3: no stored quantity is ever negative as a result of a checkout.
C3_StockNeverNegative == \A m \in MedicineId : medicinesTable[m] >= 0

QuantityIn(c, m) == IF InCart(c, m) THEN LineOf(c, m).quantity ELSE 0

\* every stock update of t's last checkout succeeded
AllUpdated(t) == attempt[t].updated = CartMedicines(attempt[t].cart)

\* C4: when two terminals check out the same medicine concurrently, each having
\* read the same available quantity, the quantity sold by the two never exceeds
\* the quantity that was in stock, and the stored quantity reflects both
\* decrements.
C4_RaceClosed ==
  \A t, u \in Terminal, m \in MedicineId :
    ( /\ t # u
      /\ role[t] = "admin" /\ role[u] = "admin"
      /\ Completed(t) /\ Completed(u)
      /\ AllUpdated(t) /\ AllUpdated(u)
      /\ InCart(attempt[t].cart, m) /\ InCart(attempt[u].cart, m)
      /\ attempt[t].read[m] = attempt[u].read[m]
      /\ attempt[t].pre[m] = attempt[u].pre[m]
      /\ attempt[t].pre[m] = attempt[t].read[m]
      /\ Len(sales) = 2 )
    => /\ QuantityIn(attempt[t].cart, m) + QuantityIn(attempt[u].cart, m)
            <= attempt[t].pre[m]
       /\ medicinesTable[m] = attempt[t].pre[m] - QuantityIn(attempt[t].cart, m)
                                - QuantityIn(attempt[u].cart, m)

\* the stock update of some line of t's finished checkout failed
SomeUpdateFailed(t) ==
  /\ role[t] = "admin"
  /\ pc[t] = "idle"
  /\ attempt[t].sale # 0
  /\ attempt[t].result # "running"
  /\ Len(attempt[t].cart) > 1
  /\ attempt[t].updated # CartMedicines(attempt[t].cart)

\* C5: if the decrement of one item of a multi-item cart fails, then neither the
\* sale, nor any of its line items, nor the decrement of any other item remains
\* persisted, and the checkout is not reported as completed.
C5_AtomicOnUpdateFailure ==
  \A t \in Terminal : SomeUpdateFailed(t) =>
    /\ ~SaleExists(attempt[t].sale)
    /\ SaleLines(attempt[t].sale) = {}
    /\ medicinesTable = attempt[t].pre
    /\ ~Completed(t)

\* C6: if persisting the line items fails after the sale record was inserted, no
\* sale record created by that checkout remains in the sales table.
C6_NoSaleLeftAfterItemsFailure ==
  \A t \in Terminal : attempt[t].result = "failed items" => ~SaleExists(attempt[t].sale)

\* C7: if persisting the sale record or the line items fails during a checkout,
\* no inventory quantity has been changed by that checkout.
C7_NoStockChangeOnPersistFailure ==
  \A t \in Terminal : attempt[t].result \in {"failed sale", "failed items"} =>
    medicinesTable = attempt[t].pre

\* a checkout of an admin till with two lines whose line items were refused after
\* the sale was inserted, and one whose sale insert was refused
C7_Witness ==
  /\ role["t1"] = "admin"
  /\ attempt["t1"].result = "failed items"
  /\ Len(attempt["t1"].cart) = 2
  /\ SaleExists(attempt["t1"].sale)

\* C8: no two persisted sales have the same sale_number, under any
\* interleaving of sale insertions.
C8_SaleNumbersUnique ==
  \A i, j \in 1..Len(sales) : i # j => sales[i].sale_number # sales[j].sale_number

\* two sales of one day are stored and a third insert, numbered while another
\* was in flight, carries a number already taken
C8_Witness ==
  /\ Len(sales) >= 2
  /\ sales[1].created_at = sales[2].created_at
  /\ \E t \in Terminal : pc[t] = "insertSale" /\ UniqueViolation(sales, call[t].number)

\* C9: checkouts attempted concurrently on the same day are assigned pairwise
\* distinct numbers, so that none is assigned a number another concurrent insert
\* was also assigned and every insert succeeds.
C9_ConcurrentNumbersDistinct ==
  \A t, u \in Terminal :
    (t # u /\ pc[t] = "insertSale" /\ pc[u] = "insertSale"
       /\ call[t].created_at = call[u].created_at)
    => call[t].number # call[u].number

\* the sale numbers as the interface documents them: SALE-YYYYMMDD-NNNN
DateText == << << "2", "0", "2", "5", "1", "0", "0", "9" >>,
               << "2", "0", "2", "5", "1", "0", "1", "0" >> >>

FourDigits(n) == << Digit(n \div 1000), Digit((n \div 100) % 10),
                    Digit((n \div 10) % 10), Digit(n % 10) >>

\* the place of the i-th stored sale among the sales of its day
RankInDay(i) == Cardinality({j \in 1..i : sales[j].created_at = sales[i].created_at})

\* C10: with the sales inserted one after another, the n-th sale persisted on a
\* day carries SALE-<day as YYYYMMDD>-<n padded to 4 digits>; the first sale of a
\* day carries 0001 however many sales earlier days hold.
C10_SequentialNumbering ==
  \A i \in 1..Len(sales) :
    sales[i].sale_number =
      << "S", "A", "L", "E", "-" >> \o DateText[sales[i].created_at] \o << "-" >>
        \o FourDigits(RankInDay(i))

\* two sales on the first day, then the first sale of the second day
C10_Witness ==
  /\ Len(sales) = 3
  /\ sales[1].created_at = 1 /\ sales[2].created_at = 1 /\ sales[3].created_at = 2
  /\ sales[3].sale_number = << "S", "A", "L", "E", "-" >> \o DateText[2]
                              \o << "-", "0", "0", "0", "1" >>

\* some line of the cart t last checked out asked for more than the quantity
\* stored for its medicine when completeSale was called
ExceedsStored(t) ==
  \E i \in 1..Len(attempt[t].cart) :
    attempt[t].cart[i].quantity > attempt[t].pre[attempt[t].cart[i].medicineId]

\* C11: a checkout in which some cart line's quantity exceeds the quantity stored
\* for its medicine when completeSale runs is rejected: it creates no sale and no
\* line item, and changes no stored quantity.
C11_OversoldCheckoutRejected ==
  \A t \in Terminal : ExceedsStored(t) =>
    /\ attempt[t].sale = 0
    /\ medicinesTable = attempt[t].pre

\* C12: completeSale called with an empty cart returns before any persistence:
\* the call is over at once, no sale, no line item and no medicine row is written,
\* and the cart, the customer fields and the payment method stay as they were.
C12_EmptyCartRejected ==
  [][\A t \in Terminal :
       (pc[t] = "idle" /\ cart[t] = << >> /\ attempt'[t] # attempt[t])
       => /\ attempt'[t].result = "empty cart"
          /\ pc'[t] = "idle"
          /\ UNCHANGED << sales, sale_items, medicinesTable, medicineNames, cart, form >>]_vars

\* an empty cart was turned away on a till whose form is filled in, and nothing
\* is stored
C12_Witness ==
  /\ attempt["t1"].result = "empty cart"
  /\ cart["t1"] = << >>
  /\ customerName["t1"] = "Asha" /\ customerPhone["t1"] = "0700"
  /\ paymentMethod["t1"] = "mpesa"
  /\ sales = << >> /\ sale_items = {}

\* C13: every stored line item has total_price = quantity * unit_price, whatever
\* sequence of addToCart calls built the cart, repeated additions of one medicine
\* at different unit prices included.
C13_LineTotalIsQuantityTimesPrice ==
  \A r \in sale_items : r.total_price = r.quantity * r.unit_price

\* the requests the sale notification function received for the sale of number n
NotificationsOf(n) ==
  {i \in 1..Len(saleNotifications) : saleNotifications[i].saleNumber = n}

\* C14: every checkout that completed has made exactly one request to the sale
\* notification function (sale number, total, cashier name, item count), sent
\* after its sale and line items were stored.
C14_OneNotificationPerSale ==
  \A t \in Terminal : Completed(t) =>
    Cardinality(NotificationsOf(sales[attempt[t].sale].sale_number)) = 1

\* the threshold in force
Threshold == Coalesce(StockThreshold(admin_settings), DefaultThreshold)

\* the last write sent to medicines carried a quantity and met the condition
\* under which the trigger dispatches an alert
LastWriteDispatched ==
  /\ lastWrite.op \in {"INSERT", "UPDATE"}
  /\ lastWrite.new # Null
  /\ AlertDue(admin_settings, lastWrite.op, lastWrite.old, lastWrite.new[1])

\* C15: a failure of the notification dispatch never fails or rolls back the
\* write that triggered it: the inventory write that crossed the low-stock
\* threshold is stored, whether or not its alert could be dispatched.
C15_DispatchFailureKeepsWrite ==
  LastWriteDispatched =>
    /\ lastWrite.id \in DOMAIN medicinesTable
    /\ medicinesTable[lastWrite.id] = lastWrite.new[1]

\* this step sends a quantity update, respectively any write carrying a
\* quantity, to medicines
UpdateSent == lastWrite' # lastWrite /\ lastWrite'.op = "UPDATE" /\ lastWrite'.new # Null

WriteSent == lastWrite' # lastWrite /\ lastWrite'.new # Null

\* the number of alerts this step dispatches
AlertsFired == Len(alerts') - Len(alerts)

\* C16: with an admin phone configured and the threshold fixed, each update of
\* an item's quantity from at or above the threshold to below it fires exactly
\* one alert, and every other update fires none (20 -> 5 fires, 5 -> 3 does not,
\* 3 -> 15 -> 5 fires again).
C16_EdgeTriggered ==
  [][(UpdateSent /\ admin_settings # << >>) =>
       AlertsFired = IF lastWrite'.old >= Threshold /\ lastWrite'.new[1] < Threshold
                       THEN 1 ELSE 0]_vars

\* C17: a single insert or quantity update dispatches an alert if and only if an
\* admin phone is configured, the new quantity is below the threshold (10 when
\* none is stored) and the write is an insert or the old quantity was at or
\* above the threshold; with no admin settings row it dispatches nothing and is
\* stored.
C17_AlertCondition ==
  [][WriteSent =>
       /\ AlertsFired = IF /\ AdminPhoneNumber(admin_settings) # Null
                           /\ lastWrite'.new[1] < Threshold
                           /\ (lastWrite'.op = "INSERT" \/ lastWrite'.old >= Threshold)
                          THEN 1 ELSE 0
       /\ admin_settings = << >> =>
            /\ AlertsFired = 0
            /\ medicinesTable'[lastWrite'.id] = lastWrite'.new[1]]_vars

\* in this step the write of t's sync goes through
SyncDone(t) ==
  /\ pc[t] = "syncWrite" /\ pc'[t] = "idle"
  /\ lastWrite' # lastWrite /\ ~Failed(lastWrite'.outcome)

C19_NoDuplicateNames ==
  \A id1, id2 \in DOMAIN medicinesTable :
    id1 # id2 => medicineNames[id1] # medicineNames[id2]

\* C20: a sync confirmed in the dialog changes medicines only when its quantity q
\* is a number with 1 <= q <= the batch's quantity.
C20_SyncQuantityInRange ==
  [][\A t \in Terminal :
       ( /\ pc[t] = "syncWrite" /\ pc'[t] = "idle"
         /\ syncCall[t].page = "products"
         /\ << medicinesTable, medicineNames >>' # << medicinesTable, medicineNames >> )
       => /\ syncCall[t].quantity # NaN
          /\ syncCall[t].quantity[1] >= 1
          /\ syncCall[t].quantity[1] <= syncCall[t].batch]_vars

\* the quantities still recorded on the intake batches named n
RECURSIVE BatchQuantity(_, _)
BatchQuantity(rows, n) ==
  IF rows = << >> THEN 0
  ELSE (IF Head(rows).product_name = n THEN Head(rows).quantity ELSE 0)
       + BatchQuantity(Tail(rows), n)

\* C21: a sync of q units that goes through lowers the remaining quantity of the
\* intake batch it was made from by q (so that the syncs of one batch never move
\* more into medicines than the batch recorded).
C21_SyncDecrementsBatch ==
  [][\A t \in Terminal : SyncDone(t) =>
       LET n == syncCall[t].name
           q == syncCall[t].quantity[1]
           rows == IF syncCall[t].page = "products" THEN products ELSE supplied_products
           rowsAfter == IF syncCall[t].page = "products" THEN products'
                        ELSE supplied_products'
       IN BatchQuantity(rowsAfter, n) = BatchQuantity(rows, n) - q]_vars

\* the caller of the request sent in this step holds the cashier role and no other
ByCashier ==
  /\ request'.caller \in Terminal
  /\ user_roles[request'.caller] = {"cashier"}

\* C22: a caller who holds only the cashier role creates a sale only with their
\* own identity as cashier_id, and a line item only for a sale whose cashier_id
\* is their own identity; an insert of theirs that is denied stores nothing.
C22_CashierInsertsUnderOwnIdentity ==
  [][(ByCashier /\ request'.op = "INSERT") =>
       LET u == request'.caller
       IN /\ \A i \in 1..Len(sales') : i > Len(sales) => sales'[i].cashier_id = u
          /\ \A r \in sale_items' \ sale_items :
               \E i \in 1..Len(sales) : sales[i].id = r.sale_id /\ sales[i].cashier_id = u
          /\ request'.outcome = "denied" =>
               UNCHANGED << sales, sale_items, medicinesTable, medicineNames >>]_vars

\* the cashier of t1 has stored a sale and a line item of their own, and the
\* other cashier's line item for that sale was just denied
C22_Witness ==
  /\ Len(sales) = 1 /\ sales[1].cashier_id = "t1"
  /\ SaleLinesOf(1) # {}
  /\ user_roles = [t \in Terminal |-> {"cashier"}]
  /\ request = Request("t2", "sale_items", "INSERT", "denied")

\* C23: a caller who holds only the cashier role writes to medicines only by
\* updating quantity: no request of theirs adds or removes a row, or changes
\* the name of one.
C23_CashierWritesQuantityOnly ==
  [][(ByCashier /\ request'.table = "medicines") =>
       /\ DOMAIN medicinesTable' = DOMAIN medicinesTable
       /\ medicineNames' = medicineNames]_vars

\* C24: a stored sale and a stored line item are never changed and never
\* deleted, whatever an admin or a cashier sends to the data API.
C24_SalesImmutable ==
  [][/\ \A i \in 1..Len(sales) : \E j \in 1..Len(sales') : sales'[j] = sales[i]
     /\ sale_items \subseteq sale_items']_vars

\* a sale and its line item are stored, and the admin's DELETE of the sale has
\* just found no row to delete
C24_Witness ==
  /\ Len(sales) = 1 /\ SaleLinesOf(1) # {}
  /\ user_roles["t2"] = {"admin"}
  /\ request = Request("t2", "sales", "DELETE", "no rows")

\* C25: every intake batch stored by either intake form expires on a day after
\* the day it was entered on, in the browser's time zone.
C25_ExpiryStrictlyFuture ==
  /\ \A i \in 1..Len(products) : products[i].expiry_date > products[i].entered_on
  /\ \A i \in 1..Len(supplied_products) :
       supplied_products[i].expiry_date > supplied_products[i].entered_on

\* C26: whatever was added to and removed from a cart under the loaded snapshot,
\* the cart holds at most one line per medicine, and every line's quantity is
\* more than 0 and at most the snapshot's quantity of its medicine.
C26_CartWithinSnapshot ==
  \A t \in Terminal :
    /\ \A i, j \in 1..Len(cart[t]) :
         cart[t][i].medicineId = cart[t][j].medicineId => i = j
    /\ \A i \in 1..Len(cart[t]) :
         /\ cart[t][i].quantity > 0
         /\ cart[t][i].medicineId \in DOMAIN medicines[t]
         /\ cart[t][i].quantity <= medicines[t][cart[t][i].medicineId]

\* in this step the manual stock update of t's checkout for cart line i is stored
StockUpdateDone(t, i) ==
  /\ pc[t] = "updateStock" /\ call[t].idx = i /\ call'[t].idx = i + 1
  /\ lastWrite' # lastWrite /\ Committed(lastWrite'.outcome)

\* C27: no change of a stored quantity is lost when syncs and checkouts overlap:
\* the write of a sync of q units onto an existing row leaves the row q above
\* what was stored just before it, and the stock update of a sold line leaves
\* the row the sold quantity below what was stored just before it (so that the
\* final quantity is the initial one plus what was synced less what was sold).
C27_NoLostUpdate ==
  [][\A t \in Terminal :
       /\ (SyncDone(t) /\ syncCall[t].existing # Null) =>
            LET id == syncCall[t].existing[1].id
            IN medicinesTable'[id] = medicinesTable[id] + syncCall[t].quantity[1]
       /\ \A i \in 1..Len(call[t].cart) : StockUpdateDone(t, i) =>
            LET item == call[t].cart[i]
            IN medicinesTable'[item.medicineId]
                 = medicinesTable[item.medicineId] - item.quantity]_vars

\* C28: on the Manager page of a cashier the active tab is never cctv, supplier
\* or products, whatever tab changes were asked for, and the CCTV monitor, the
\* supplier form and the product form are never rendered.
C28_CashierTabsRestricted ==
  \A t \in Terminal : role[t] = "cashier" =>
    /\ activeTab[t] \notin restrictedTabs
    /\ TabContent(role[t], activeTab[t]) \notin {"CCTVMonitor", "SupplierForm", "ProductForm"}

\* the cashier has moved to the POS tab while the admin is on Products Supplied
C28_Witness ==
  /\ role["t1"] = "cashier" /\ activeTab["t1"] = "pos"
  /\ role["t2"] = "admin" /\ activeTab["t2"] = "products"

\* C29: a sale inserted with an empty sale_number while no other insert is under
\* way never fails on the uniqueness of sale_number, however many sales the day
\* already has: the number generated differs from every stored one, and its
\* sequence part has exactly 4 characters.
C29_SequentialInsertNeverConflicts ==
  [][(request'.table = "sales" /\ request'.op = "INSERT" /\ request'.outcome # "denied") =>
       LET number == GenerateSaleNumber(sales, today)
       IN /\ \A i \in 1..Len(sales) : sales[i].sale_number # number
          /\ Len(number) = Len(SaleNumberText(today, 1))
          /\ request'.outcome = "done"]_vars

\* the queue holds an alert for the medicine of this name
AlertedFor(queue, name) == \E i \in 1..Len(queue) : queue[i].medicineName = name

\* C30: with an admin phone configured, an item that a stored quantity write
\* leaves below the low-stock threshold configured at that time has had an alert
\* dispatched for it, also when it is below the threshold because the setting
\* was raised (every item starts at or above any threshold).
C30_LowStockAlertedAfterThresholdChange ==
  [][( /\ WriteSent /\ Committed(lastWrite'.outcome)
       /\ AdminPhoneNumber(admin_settings) # Null
       /\ lastWrite'.new[1] < Threshold )
     => AlertedFor(alerts', medicineNames'[lastWrite'.id])]_vars

====
